---- MODULE Spec2Model ----
(***************************************************************************)
(* Model of the KServe inference-service composer of the serving-platform  *)
(* backend (src/src/kserve_module/service.py): the leaf converters, the    *)
(* model-spec resolver, the predictor / transformer / inference-service    *)
(* composition, and the create / patch / replace request handlers with the *)
(* model registry (MLflow) and the platform (KServe client) as external    *)
(* collaborators.                                                          *)
(*                                                                         *)
(* Python's Optional[T] is modelled as a tuple of length 0 (None) or 1     *)
(* (the value): None == <<>>, Some(v) == <<v>>.  Python strings that the   *)
(* code inspects character by character (cpu, memory) are sequences of     *)
(* one-character strings; all other strings are TLA+ strings.  A Python    *)
(* dict is a function from its keys.  A call that may raise is modelled by *)
(* a record [raised, value, exc].                                          *)
(***************************************************************************)
EXTENDS Integers, Sequences, FiniteSets, TLC

\* ------------------------------------------------------------------ bounds

\* longest container list of a transformer the model submits
MaxContainers == 2
\* longest list of versions the registry returns
MaxVersions == 2
\* longest cpu / memory string get_resource_dict is called with on its own
MaxStrLen == 3
\* largest gpu count get_resource_dict is called with on its own
MaxGpu == 2
\* longest data list infer_model is called with
MaxRows == 2
\* longest port / env / toleration list a converter is called with on its own
MaxEntries == 2
\* most get / detail / stat / delete calls that follow a create
MaxLookups == 3
\* most files in one upload request
MaxFiles == 2
\* most items in the list given to get_page
MaxItems == 2

\* ------------------------------------------------------------ Optional[T]

None == <<>>
Some(v) == <<v>>
Val(o) == o[1]

\* all sequences over S of length at most n
SeqsUpTo(S, n) == UNION {[1..k -> S] : k \in 0..n}

\* a Python dict with d[k] = v set
DictSet(d, k, v) == [x \in (DOMAIN d) \cup {k} |-> IF x = k THEN v ELSE d[x]]

EmptyDict == [x \in {} |-> None]

\* --------------------------------------------------------- Python strings

Whitespace == {" ", "\t", "\n"}

RECURSIVE LStrip(_)
LStrip(s) == IF s # <<>> /\ Head(s) \in Whitespace THEN LStrip(Tail(s)) ELSE s

RECURSIVE RStrip(_)
RStrip(s) ==
    IF s # <<>> /\ s[Len(s)] \in Whitespace THEN RStrip(SubSeq(s, 1, Len(s) - 1)) ELSE s

\* str.strip()
Strip(s) == RStrip(LStrip(s))

\* str.endswith(suffix)
EndsWith(s, suffix) ==
    /\ Len(s) >= Len(suffix)
    /\ SubSeq(s, Len(s) - Len(suffix) + 1, Len(s)) = suffix

\* ------------------------------------------------------- calls that raise

Return(v) == [raised |-> FALSE, value |-> v, exc |-> None]
Raise(e) == [raised |-> TRUE, value |-> None, exc |-> Some(e)]

\* ---------------------------------------------------------------- schemas

Port(name, protocol, container_port, host_ip, host_port) ==
    [name |-> name, protocol |-> protocol, container_port |-> container_port,
     host_ip |-> host_ip, host_port |-> host_port]

Resource(cpu, memory, gpu) == [cpu |-> cpu, memory |-> memory, gpu |-> gpu]

ResourceRequirements(limits, requests) == [limits |-> limits, requests |-> requests]

Container(image, image_pull_policy, name, command, args, ports, resources) ==
    [image |-> image, image_pull_policy |-> image_pull_policy, name |-> name,
     command |-> command, args |-> args, ports |-> ports, resources |-> resources]

\* ------------------------------------------------ Resource Dictionary Builder
\* Each source function is written as a chain of operators, one per step of its
\* body, the value of a step being an argument of the next.

\* if <value>.endswith(suffix): resource_dict[key] = <value>
put_if_suffix(resource_dict, key, value, suffix) ==
    IF EndsWith(value, suffix) THEN DictSet(resource_dict, key, value) ELSE resource_dict

\* cpu = resource.cpu ... resource_dict["cpu"] = cpu
with_cpu(resource_dict, cpu) ==
    IF cpu # None
      THEN put_if_suffix(resource_dict, "cpu", Strip(Val(cpu)), <<"m">>)
      ELSE resource_dict

\* memory = resource.memory ... resource_dict["memory"] = memory
with_memory(resource_dict, memory) ==
    IF memory # None
      THEN put_if_suffix(resource_dict, "memory", Strip(Val(memory)), <<"G", "i">>)
      ELSE resource_dict

\* a builder that also accepts a gpu count of 0
with_gpu_nonnegative(resource_dict, gpu) ==
    IF gpu # None /\ Val(gpu) >= 0
      THEN DictSet(resource_dict, "nvidia.com/gpu", Val(gpu))
      ELSE resource_dict

\* gpu = resource.gpu ... resource_dict["nvidia.com/gpu"] = gpu
with_gpu(resource_dict, gpu) ==
    IF gpu # None /\ Val(gpu) > 0
      THEN DictSet(resource_dict, "nvidia.com/gpu", Val(gpu))
      ELSE resource_dict

\* a builder without the final length test
dict_or_none_unchecked(resource_dict) == Some(resource_dict)

\* if len(resource_dict) < 1: return None
dict_or_none(resource_dict) ==
    IF Cardinality(DOMAIN resource_dict) < 1 THEN None ELSE Some(resource_dict)

get_resource_dict(resource) ==
    IF resource = None THEN None
    ELSE dict_or_none(
           with_gpu(with_memory(with_cpu(EmptyDict, Val(resource).cpu),
                                Val(resource).memory),
                    Val(resource).gpu))

\* requirements that are dropped as soon as one side is missing
V1ResourceRequirements_both_needed(limits, requests) ==
    IF limits = None \/ requests = None THEN None
    ELSE Some([limits |-> limits, requests |-> requests])

V1ResourceRequirements(limits, requests) ==
    IF limits = None /\ requests = None THEN None
    ELSE Some([limits |-> limits, requests |-> requests])

create_v1_resource_requirements(resource_requirements) ==
    IF resource_requirements = None THEN None
    ELSE V1ResourceRequirements(get_resource_dict(Val(resource_requirements).limits),
                                get_resource_dict(Val(resource_requirements).requests))

\* ----------------------------------------------------------- leaf converters

\* a list converter without the final length test
list_or_none_unchecked(list) == Some(list)

\* if len(<list>) < 1: return None
list_or_none(list) == IF Len(list) < 1 THEN None ELSE Some(list)

\* if <converted> is not None: <list>.append(<converted>)
append_if_not_none(list, converted) ==
    IF converted # None THEN Append(list, Val(converted)) ELSE list

create_v1_container_port(container_port, host_ip, host_port, name, protocol) ==
    IF /\ container_port = None /\ host_ip = None /\ host_port = None
       /\ name = None /\ protocol = None
      THEN None
      ELSE Some([container_port |-> container_port, host_ip |-> host_ip,
                 host_port |-> host_port, name |-> name, protocol |-> protocol])

\* the loop of create_v1_container_port_list over the ports still to convert
RECURSIVE port_list_loop(_, _)
port_list_loop(ports, port_list) ==
    IF ports = <<>> THEN port_list
    ELSE port_list_loop(
           Tail(ports),
           append_if_not_none(
             port_list,
             create_v1_container_port(Head(ports).container_port, Head(ports).host_ip,
                                      Head(ports).host_port, Head(ports).name,
                                      Head(ports).protocol)))

create_v1_container_port_list(ports) ==
    IF ports = None THEN None ELSE list_or_none(port_list_loop(Val(ports), <<>>))

create_v1_container_never_none(image, image_pull_policy, name, command, args, ports, resources) ==
    Some([image |-> image, image_pull_policy |-> image_pull_policy, name |-> name,
          command |-> command, args |-> args,
          ports |-> create_v1_container_port_list(ports),
          resources |-> create_v1_resource_requirements(resources)])

create_v1_container(image, image_pull_policy, name, command, args, ports, resources) ==
    IF /\ image = None /\ image_pull_policy = None /\ name = None /\ command = None
       /\ args = None /\ ports = None /\ resources = None
      THEN None
      ELSE Some([image |-> image, image_pull_policy |-> image_pull_policy,
                 name |-> name, command |-> command, args |-> args,
                 ports |-> create_v1_container_port_list(ports),
                 resources |-> create_v1_resource_requirements(resources)])

\* the loop of create_v1_container_list over the containers still to convert
RECURSIVE container_list_loop(_, _)
container_list_loop(containers, container_list) ==
    IF containers = <<>> THEN container_list
    ELSE container_list_loop(
           Tail(containers),
           append_if_not_none(
             container_list,
             create_v1_container(Head(containers).image, Head(containers).image_pull_policy,
                                 Head(containers).name, Head(containers).command,
                                 Head(containers).args, Head(containers).ports,
                                 Head(containers).resources)))

create_v1_container_list(containers) ==
    IF containers = None THEN None
    ELSE list_or_none(container_list_loop(Val(containers), <<>>))

create_v1beta1_logger_spec(logger) ==
    IF logger = None THEN None
    ELSE Some([mode |-> Val(logger).mode, url |-> Val(logger).url])

create_v1_env_var(env) == [name |-> env.name, value |-> env.value]

create_v1_env_var_list(envs) ==
    IF envs = None THEN None
    ELSE Some([i \in 1..Len(Val(envs)) |-> create_v1_env_var(Val(envs)[i])])

create_v1_toleration(toleration) ==
    [key |-> toleration.key, operator |-> toleration.operator,
     value |-> toleration.value, effect |-> toleration.effect]

create_v1_toleration_list(tolerations) ==
    IF tolerations = None THEN None
    ELSE Some([i \in 1..Len(Val(tolerations)) |-> create_v1_toleration(Val(tolerations)[i])])

create_v1beta1_batcher(batcher) ==
    IF batcher = None THEN None
    ELSE Some([max_batch_size |-> Val(batcher).max_batch_size,
               max_latency |-> Val(batcher).max_latency])

\* -------------------------------------------------------- model registry

KServeApiError(code, message, result) ==
    [type |-> "KServeApiError", code |-> code, message |-> message, result |-> result]

MODULE_CODE == 102

\* int(f"{MODULE_CODE}{code}") for a three-digit code
module_code(code) == MODULE_CODE * 1000 + code

\* KServeApiError(e) for an e that is neither a RuntimeError nor an ApiException
KServeApiError_default ==
    KServeApiError(module_code(400), "BAD REQUEST", <<"Your request has been denied.">>)

\* KServeApiError(e) for an ApiException e
KServeApiError_of_ApiException(e) ==
    KServeApiError(module_code(e.status), e.reason, e.body)

\* a lookup that answers a failed call with the empty list
get_latest_versions_from_mlflow_swallowing(reg) == Return(reg.versions)

\* `reg` is what the MLflow client does for this call: [failed |-> TRUE] for an
\* MlflowException, and otherwise the list of versions it returns
get_latest_versions_from_mlflow(reg) ==
    IF reg.failed THEN Raise(KServeApiError_default) ELSE Return(reg.versions)

\* if len(latest_model_versions) < 1: return None
\* return latest_model_versions[-1].source
latest_source(latest_model_versions) ==
    IF latest_model_versions.raised THEN latest_model_versions
    ELSE IF Len(latest_model_versions.value) < 1 THEN Return(None)
    ELSE Return(Some(latest_model_versions.value[Len(latest_model_versions.value)].source))

get_latest_model_version_storage_uri(reg) ==
    latest_source(get_latest_versions_from_mlflow(reg))

\* ------------------------------------------------------ Model Spec Resolver

create_v1beta1_model_format(model_format) ==
    [name |-> model_format.name, version |-> model_format.version]

registry_branch_any_protocol(model_spec) ==
    /\ model_spec.model_name # None
    /\ model_spec.model_format.name = "mlflow"

\* the condition under which create_v1beta1_model_spec asks the registry
registry_branch(model_spec) ==
    /\ model_spec.model_name # None
    /\ model_spec.model_format.name = "mlflow"
    /\ model_spec.protocol_version = Some("v2")

\* the V1beta1ModelSpec(...) that create_v1beta1_model_spec returns
V1beta1ModelSpec(model_spec) ==
    [model_format |-> create_v1beta1_model_format(model_spec.model_format),
     storage_uri |-> model_spec.storage_uri,
     protocol_version |-> model_spec.protocol_version,
     resources |-> create_v1_resource_requirements(model_spec.resources),
     runtime |-> model_spec.runtime,
     runtime_version |-> model_spec.runtime_version,
     ports |-> create_v1_container_port_list(model_spec.ports),
     env |-> create_v1_env_var_list(model_spec.envs)]

model_spec_or_none_unchecked(model_spec, storage_uri) ==
    IF storage_uri.raised THEN storage_uri
    ELSE Return(Some(V1beta1ModelSpec(model_spec)))

\* if storage_uri is None: return None
\* return V1beta1ModelSpec(...)
model_spec_or_none(model_spec, storage_uri) ==
    IF storage_uri.raised THEN storage_uri
    ELSE IF storage_uri.value = None THEN Return(None)
    ELSE Return(Some(V1beta1ModelSpec(model_spec)))

create_v1beta1_model_spec(model_spec, reg) ==
    model_spec_or_none(
      model_spec,
      IF registry_branch(model_spec)
        THEN get_latest_model_version_storage_uri(reg)
        ELSE Return(model_spec.storage_uri))

\* ------------------------------------------------------------ Spec Composer

V1beta1PredictorSpec(predictor_spec, model_spec) ==
    [model |-> model_spec,
     service_account_name |-> predictor_spec.service_account_name,
     node_selector |-> predictor_spec.node_selector,
     timeout |-> predictor_spec.timeout,
     min_replicas |-> predictor_spec.min_replicas,
     max_replicas |-> predictor_spec.max_replicas,
     scale_target |-> predictor_spec.scale_target,
     scale_metric |-> predictor_spec.scale_metric,
     canary_traffic_percent |-> predictor_spec.canary_traffic_percent,
     batcher |-> create_v1beta1_batcher(predictor_spec.batcher),
     logger |-> create_v1beta1_logger_spec(predictor_spec.logger),
     tolerations |-> create_v1_toleration_list(predictor_spec.tolerations)]

predictor_or_none_unchecked(predictor_spec, model_spec) ==
    IF model_spec.raised THEN model_spec
    ELSE Return(Some(V1beta1PredictorSpec(predictor_spec, model_spec.value)))

\* if model_spec is None: return None
\* return V1beta1PredictorSpec(model=model_spec, ...)
predictor_or_none(predictor_spec, model_spec) ==
    IF model_spec.raised THEN model_spec
    ELSE IF model_spec.value = None THEN Return(None)
    ELSE Return(Some(V1beta1PredictorSpec(predictor_spec, model_spec.value)))

create_v1beta1_predictor_spec(predictor_spec, reg) ==
    predictor_or_none(predictor_spec,
                      create_v1beta1_model_spec(predictor_spec.model_spec, reg))

\* if containers is None: return None
\* return V1beta1TransformerSpec(containers=containers, ...)
transformer_or_none(t, containers) ==
    IF containers = None THEN None
    ELSE Some([containers |-> Val(containers),
               service_account_name |-> t.service_account_name,
               node_selector |-> t.node_selector,
               timeout |-> t.timeout,
               min_replicas |-> t.min_replicas,
               max_replicas |-> t.max_replicas,
               scale_target |-> t.scale_target,
               scale_metric |-> t.scale_metric,
               canary_traffic_percent |-> t.canary_traffic_percent,
               batcher |-> create_v1beta1_batcher(t.batcher),
               tolerations |-> create_v1_toleration_list(t.tolerations)])

create_v1beta1_transformer_spec(transformer_spec) ==
    IF transformer_spec = None THEN None
    ELSE transformer_or_none(Val(transformer_spec),
                             create_v1_container_list(Some(Val(transformer_spec).containers)))

\* if predictor_spec is None: return None
\* return V1beta1InferenceServiceSpec(predictor=..., transformer=...)
inference_service_spec_or_none(inference_service_spec, predictor_spec) ==
    IF predictor_spec.raised THEN predictor_spec
    ELSE IF predictor_spec.value = None THEN Return(None)
    ELSE Return(Some([predictor |-> Val(predictor_spec.value),
                      transformer |->
                          create_v1beta1_transformer_spec(inference_service_spec.transformer)]))

create_v1beta1_inference_service_spec(inference_service_spec, reg) ==
    inference_service_spec_or_none(
      inference_service_spec,
      create_v1beta1_predictor_spec(inference_service_spec.predictor, reg))

create_v1_object_meta(name, namespace, annotations) ==
    [name |-> name, namespace |-> namespace, annotations |-> annotations]

\* if <flag>: annotations[key] = value
annotate_if(annotations, flag, key, value) ==
    IF flag THEN DictSet(annotations, key, value) ELSE annotations

get_inference_service_annotation_coupled(sidecar_inject, enable_prometheus_scraping) ==
    dict_or_none(
      annotate_if(
        annotate_if(EmptyDict, ~sidecar_inject /\ ~enable_prometheus_scraping,
                    "sidecar.istio.io/inject", "false"),
        enable_prometheus_scraping,
        "serving.kserve.io/enable-prometheus-scraping", "true"))

get_inference_service_annotation(sidecar_inject, enable_prometheus_scraping) ==
    dict_or_none(
      annotate_if(
        annotate_if(EmptyDict, ~sidecar_inject, "sidecar.istio.io/inject", "false"),
        enable_prometheus_scraping,
        "serving.kserve.io/enable-prometheus-scraping", "true"))

\* if inference_service_spec is None: return None
\* return V1beta1InferenceService(...)
inference_service_or_none(inference_service_info, inference_service_spec) ==
    IF inference_service_spec.raised THEN inference_service_spec
    ELSE IF inference_service_spec.value = None THEN Return(None)
    ELSE Return(Some(
           [api_version |-> "serving.kserve.io/v1beta1",
            kind |-> "InferenceService",
            metadata |-> create_v1_object_meta(
                inference_service_info.name,
                inference_service_info.namespace,
                get_inference_service_annotation(
                    inference_service_info.sidecar_inject,
                    inference_service_info.enable_prometheus_scraping)),
            spec |-> Val(inference_service_spec.value)]))

create_v1beta1_inference_service(inference_service_info, reg) ==
    inference_service_or_none(
      inference_service_info,
      create_v1beta1_inference_service_spec(
          inference_service_info.inference_service_spec, reg))

\* ------------------------------------------------------------------ inputs

EmptyPort == Port(None, None, None, None, None)
HttpPort == Port(Some("http"), Some("TCP"), Some(8080), None, None)

\* no field of it qualifies: cpu without unit, memory in "G", no accelerator
InvalidResource == Resource(Some(<<"1">>), Some(<<"1", "G">>), Some(0))
ValidResource == Resource(Some(<<" ", "1", "m", " ">>), Some(<<"1", "G", "i">>), Some(1))

EmptyContainer == Container(None, None, None, None, None, None, None)
ImageContainer == Container(Some("img:1"), None, None, None, None, None, None)
\* its only field is a list of ports that all convert to None
PortsOnlyContainer == Container(None, None, None, None, None, Some(<<EmptyPort>>), None)
\* its only field is a resources object with no valid field
ResourcesOnlyContainer ==
    Container(None, None, None, None, None, None,
              Some(ResourceRequirements(Some(InvalidResource), None)))

ContainerSet == {EmptyContainer, ImageContainer, PortsOnlyContainer, ResourcesOnlyContainer}

ModelSpec(model_name, storage_uri, protocol_version, format_name, populated) ==
    [model_name |-> model_name,
     storage_uri |-> storage_uri,
     protocol_version |-> protocol_version,
     model_format |-> [name |-> format_name, version |-> None],
     resources |-> IF populated
                     THEN Some(ResourceRequirements(Some(ValidResource), Some(InvalidResource)))
                     ELSE None,
     runtime |-> IF populated THEN Some("kserve-mlserver") ELSE None,
     runtime_version |-> None,
     ports |-> IF populated THEN Some(<<EmptyPort, HttpPort>>) ELSE None,
     envs |-> IF populated THEN Some(<<[name |-> "LOG", value |-> "1"]>>) ELSE None]

PredictorSpec(model_spec, populated) ==
    [model_spec |-> model_spec,
     service_account_name |-> "kserve-sa",
     node_selector |-> None,
     timeout |-> IF populated THEN Some(60) ELSE None,
     min_replicas |-> IF populated THEN Some(1) ELSE None,
     max_replicas |-> IF populated THEN Some(2) ELSE None,
     scale_target |-> None,
     scale_metric |-> None,
     canary_traffic_percent |-> None,
     batcher |-> IF populated THEN Some([max_batch_size |-> 8, max_latency |-> 100]) ELSE None,
     logger |-> IF populated THEN Some([mode |-> "all", url |-> "http://sink"]) ELSE None,
     tolerations |-> IF populated
                       THEN Some(<<[key |-> "gpu", operator |-> "Exists",
                                    value |-> "", effect |-> "NoSchedule"]>>)
                       ELSE None]

TransformerSpec(containers) ==
    [containers |-> containers,
     service_account_name |-> "kserve-sa",
     node_selector |-> None, timeout |-> None, min_replicas |-> None,
     max_replicas |-> None, scale_target |-> None, scale_metric |-> None,
     canary_traffic_percent |-> None, batcher |-> None, tolerations |-> None]

InferenceServiceInfo(name, namespace, predictor, transformer, sidecar_inject, scraping) ==
    [name |-> name,
     namespace |-> namespace,
     inference_service_spec |-> [predictor |-> predictor, transformer |-> transformer],
     sidecar_inject |-> sidecar_inject,
     enable_prometheus_scraping |-> scraping]

ModelSpecSet ==
    {ModelSpec(n, u, p, f, x) :
        n \in {None, Some("iris-model")},
        u \in {None, Some("s3://bucket/iris")},
        p \in {None, Some("v1"), Some("v2")},
        f \in {"mlflow", "sklearn"},
        x \in BOOLEAN}

TransformerSet ==
    {None} \cup {Some(TransformerSpec(cs)) : cs \in SeqsUpTo(ContainerSet, MaxContainers)}

Namespaces == {"kubeflow-user-example-com", "team-a"}

InfoSet ==
    {InferenceServiceInfo("iris", ns, PredictorSpec(m, m.runtime # None), t, s, e) :
        ns \in Namespaces, m \in ModelSpecSet, t \in TransformerSet,
        s \in BOOLEAN, e \in BOOLEAN}

ModelVersion(version) ==
    [version |-> version,
     source |-> IF version = 1 THEN "s3://a/1" ELSE IF version = 2 THEN "s3://a/2" ELSE "s3://a/n"]

\* what the registry may answer: an MlflowException, or a list of versions
RegistryOutcomes ==
    {[failed |-> TRUE, versions |-> <<>>]}
      \cup {[failed |-> FALSE, versions |-> vs] :
              vs \in SeqsUpTo({ModelVersion(1), ModelVersion(2)}, MaxVersions)}

NoLookup == [failed |-> FALSE, versions |-> <<>>]

\* what the platform client may do with a write: succeed, or raise
ApiFailures ==
    {[type |-> t, status |-> st.status, reason |-> st.reason, body |-> st.body] :
        t \in {"ApiException", "RuntimeError"},
        st \in {[status |-> 409, reason |-> "Conflict", body |-> "already exists"],
                [status |-> 500, reason |-> "Internal Server Error", body |-> "boom"]}}

Ops == {"create", "patch", "replace"}

\* ------------------------------------------------------------------- state

VARIABLES
    pc,              \* position of the request handler
    op,              \* which handler runs: create / patch / replace
    info,            \* Optional: the InferenceServiceInfo the handler was called with
    registry_calls,  \* the registry lookups of this request, with their answers
    v1beta1_i_svc,   \* outcome of create_v1beta1_inference_service
    platform_calls,  \* the platform write calls of this request
    result,          \* Optional: what the handler returns or raises
    rd_pc,           \* position of a call of get_resource_dict
    resource,        \* Optional[Resource]: the argument of get_resource_dict
    resource_dict,   \* what get_resource_dict returned
    infer_pc,        \* position of a call of infer_model
    infer_call,      \* Optional: the arguments of infer_model
    deployment,      \* Optional: what the platform holds for (name, namespace)
    status_lookups,  \* the platform status lookups infer_model made
    formatted,       \* Optional: inference_url, formatted_data and headers
    http_posts,      \* the calls of httpx.post infer_model made, with their answers
    infer_result,    \* Optional: what infer_model returns or raises
    conv_pc,         \* position of a call of a list / requirements converter
    conv_call,       \* Optional: the converter called and its argument
    conv_out,        \* what the converter returned
    resources,       \* the (name, namespace) pairs of the inference services the platform holds
    created,         \* Optional: name and namespace of the service the last create made
    lookup_calls,    \* the platform calls of get / detail / stat / delete since then
    bucket,          \* the objects of the MinIO bucket: object name -> Optional content
    uploads,         \* the put_objects calls in progress, one per caller
    page_pc,         \* position of a call of get_page
    page_args,       \* Optional: the arguments of get_page
    page_out         \* Optional: what get_page returned

handler_vars == <<pc, op, info, registry_calls, v1beta1_i_svc, platform_calls, result>>
resource_vars == <<rd_pc, resource, resource_dict>>
infer_vars ==
    <<infer_pc, infer_call, deployment, status_lookups, formatted, http_posts, infer_result>>

conv_vars == <<conv_pc, conv_call, conv_out>>
lookup_vars == <<resources, created, lookup_calls>>
minio_vars == <<bucket, uploads>>
page_vars == <<page_pc, page_args, page_out>>

\* the variables of the specifications of the other modules' code
other_vars == <<conv_vars, lookup_vars, minio_vars, page_vars>>

vars == <<handler_vars, resource_vars, infer_vars, other_vars>>

\* no request handler is running
HandlersIdle ==
    /\ pc = "idle"
    /\ op = "none"
    /\ info = None
    /\ registry_calls = <<>>
    /\ v1beta1_i_svc = Return(None)
    /\ platform_calls = <<>>
    /\ result = None

\* get_resource_dict is not being called on its own
ResourceOff ==
    /\ rd_pc = "off"
    /\ resource = None
    /\ resource_dict = None

\* infer_model is not being called
InferOff ==
    /\ infer_pc = "off"
    /\ infer_call = None
    /\ deployment = None
    /\ status_lookups = <<>>
    /\ formatted = None
    /\ http_posts = <<>>
    /\ infer_result = None

\* no converter is being called on its own
ConvertersOff ==
    /\ conv_pc = "off"
    /\ conv_call = None
    /\ conv_out = None

\* get / detail / stat / delete are not being called
LookupOff ==
    /\ resources = {}
    /\ created = None
    /\ lookup_calls = <<>>

\* put_objects is not being called
MinioOff ==
    /\ bucket = <<>>
    /\ uploads = <<>>

\* get_page is not being called
PageOff ==
    /\ page_pc = "off"
    /\ page_args = None
    /\ page_out = None

OthersOff == ConvertersOff /\ LookupOff /\ MinioOff /\ PageOff

Init == HandlersIdle /\ ResourceOff /\ InferOff /\ OthersOff

\* a request arrives: the router calls the handler with the parsed body
Submit(o, i) ==
    /\ pc' = "called"
    /\ op' = o
    /\ info' = Some(i)
    /\ UNCHANGED <<registry_calls, v1beta1_i_svc, platform_calls, result>>
    /\ UNCHANGED <<resource_vars, infer_vars, other_vars>>

\* v1beta1_i_svc = self.create_v1beta1_inference_service(inference_service_info)
Compose ==
    /\ pc = "called"
    /\ LET i == Val(info)
           model_spec == i.inference_service_spec.predictor.model_spec
       IN \E reg \in (IF registry_branch(model_spec) THEN RegistryOutcomes ELSE {NoLookup}) :
            /\ registry_calls' =
                 IF registry_branch(model_spec)
                   THEN <<[model_name |-> Val(model_spec.model_name), answer |-> reg]>>
                   ELSE <<>>
            /\ v1beta1_i_svc' = create_v1beta1_inference_service(i, reg)
    /\ pc' = "composed"
    /\ UNCHANGED <<op, info, platform_calls, result>>
    /\ UNCHANGED <<resource_vars, infer_vars, other_vars>>

\* the result of a handler whose platform call raised e, or whose composition raised
parse_response(args) == [kind |-> "parse_response", args |-> args]

\* except clause of create_inference_service: except Exception
create_except(e) == [kind |-> "return", value |-> parse_response(e)]

\* except clause of patch / replace: `except ApiException or MlflowException`
\* is `except ApiException`; anything else propagates
patch_except(e) ==
    IF e.type = "ApiException"
      THEN [kind |-> "raise", value |-> KServeApiError_of_ApiException(e)]
      ELSE [kind |-> "raise", value |-> e]

\* if v1beta1_i_svc is None: return False
is_incomplete_never(composed) == FALSE

is_incomplete(composed) == composed.value = None

\* the composition raised (the registry lookup failed)
ComposeRaised ==
    /\ pc = "composed"
    /\ v1beta1_i_svc.raised
    /\ result' = Some(IF op = "create" THEN create_except(Val(v1beta1_i_svc.exc))
                                       ELSE patch_except(Val(v1beta1_i_svc.exc)))
    /\ pc' = "done"
    /\ UNCHANGED <<op, info, registry_calls, v1beta1_i_svc, platform_calls>>
    /\ UNCHANGED <<resource_vars, infer_vars, other_vars>>

ReturnFalse ==
    /\ pc = "composed"
    /\ ~v1beta1_i_svc.raised
    /\ is_incomplete(v1beta1_i_svc)
    /\ result' = Some([kind |-> "return", value |-> FALSE])
    /\ pc' = "done"
    /\ UNCHANGED <<op, info, registry_calls, v1beta1_i_svc, platform_calls>>
    /\ UNCHANGED <<resource_vars, infer_vars, other_vars>>

\* what the platform client may do with a write: return, or raise one of
\* ApiFailures
WriteOutcomes == {None} \cup {Some(e) : e \in ApiFailures}

\* the entry of platform_calls of a write of this request that ended as `raised`
platform_call(raised) ==
    [method |-> op, name |-> Val(info).name, body |-> v1beta1_i_svc.value, raised |-> raised]

\* what the handler returns when the write returned
write_returned ==
    [kind |-> "return",
     value |-> IF op = "create" THEN [code |-> 200, message |-> v1beta1_i_svc.value]
                                ELSE [i_svc |-> v1beta1_i_svc.value]]

\* a handler that calls the platform a second time when the first call raised
PlatformWrite_retrying ==
    /\ pc = "composed"
    /\ ~v1beta1_i_svc.raised
    /\ ~is_incomplete(v1beta1_i_svc)
    /\ \E raised \in WriteOutcomes :
         /\ platform_calls' =
              IF raised = None
                THEN Append(platform_calls, platform_call(raised))
                ELSE Append(Append(platform_calls, platform_call(raised)), platform_call(raised))
         /\ result' = Some(IF raised = None THEN write_returned
                           ELSE IF op = "create" THEN create_except(Val(raised))
                           ELSE patch_except(Val(raised)))
    /\ pc' = "done"
    /\ UNCHANGED <<op, info, registry_calls, v1beta1_i_svc>>
    /\ UNCHANGED <<resource_vars, infer_vars, other_vars>>

\* self.get_kserve_client().create / patch / replace and the return that follows
PlatformWrite ==
    /\ pc = "composed"
    /\ ~v1beta1_i_svc.raised
    /\ ~is_incomplete(v1beta1_i_svc)
    /\ \E raised \in WriteOutcomes :
         /\ platform_calls' = Append(platform_calls, platform_call(raised))
         /\ result' = Some(IF raised = None THEN write_returned
                           ELSE IF op = "create" THEN create_except(Val(raised))
                           ELSE patch_except(Val(raised)))
    /\ pc' = "done"
    /\ UNCHANGED <<op, info, registry_calls, v1beta1_i_svc>>
    /\ UNCHANGED <<resource_vars, infer_vars, other_vars>>

\* the response is sent; the next request starts from nothing
Finish ==
    /\ pc = "done"
    /\ pc' = "idle"
    /\ op' = "none"
    /\ info' = None
    /\ registry_calls' = <<>>
    /\ v1beta1_i_svc' = Return(None)
    /\ platform_calls' = <<>>
    /\ result' = None
    /\ UNCHANGED <<resource_vars, infer_vars, other_vars>>

\* the handlers run one request at a time: each request is an independent unit
Request ==
    /\ pc = "idle"
    /\ \E o \in Ops, i \in InfoSet : Submit(o, i)

Next ==
    \/ Request
    \/ Compose
    \/ ComposeRaised
    \/ ReturnFalse
    \/ PlatformWrite
    \/ Finish

Spec == Init /\ [][Next]_vars

\* ------------------------------------------------------- reading a state

\* the handler has composed (or failed to compose) the resource of this request
Composed == pc \in {"composed", "done"}

\* the ModelSpec of the request
ModelSpecIn == Val(info).inference_service_spec.predictor.model_spec

\* what the registry answered in this request (NoLookup if it was not asked)
RegistryAnswer == IF registry_calls = <<>> THEN NoLookup ELSE registry_calls[1].answer

\* what create_v1beta1_model_spec returned in this request
ModelSpecOut == create_v1beta1_model_spec(ModelSpecIn, RegistryAnswer)

\* the composition returned normally (no exception from the registry)
ComposedNormally == Composed /\ ~v1beta1_i_svc.raised

\* the request takes the registry branch: model_name set, mlflow, v2
TakesRegistryBranch ==
    /\ ModelSpecIn.model_name # None
    /\ ModelSpecIn.model_format.name = "mlflow"
    /\ ModelSpecIn.protocol_version = Some("v2")

\* the registry answered with at least one version
RegistryHasVersions ==
    /\ registry_calls # <<>>
    /\ ~RegistryAnswer.failed
    /\ Len(RegistryAnswer.versions) >= 1

LastSource == RegistryAnswer.versions[Len(RegistryAnswer.versions)].source

\* ------------------------------------------------------------------ claims

\* C1: for a ModelSpec with model_name set, format mlflow, protocol v2 and no
\* storage_uri, when the registry returns one or more versions, the model spec
\* that create_v1beta1_model_spec returns carries the source of the last entry
\* of the registry's list.  The code builds the spec from model_spec.storage_uri
\* (None here) instead of the resolved URI, so TLC refutes this.
C1_StorageUriIsLatestSource ==
    (/\ ComposedNormally
     /\ TakesRegistryBranch
     /\ ModelSpecIn.storage_uri = None
     /\ RegistryHasVersions)
      => /\ ModelSpecOut.value # None
         /\ Val(ModelSpecOut.value).storage_uri = Some(LastSource)
         /\ Val(Val(v1beta1_i_svc.value).spec.predictor.model).storage_uri = Some(LastSource)

\* the URI the resolver decided on: the registry's when the registry branch was
\* taken, the caller's otherwise
ResolvedUri ==
    IF TakesRegistryBranch
      THEN (IF RegistryHasVersions THEN Some(LastSource) ELSE None)
      ELSE ModelSpecIn.storage_uri

\* C2: fail-closed: whenever create_v1beta1_model_spec returns a model spec, its
\* storage_uri is not None and equals the resolved URI, and no resource handed
\* to the platform has a model without a storage location.  Refuted by the same
\* line of the code as C1.
C2_ReturnedSpecCarriesResolvedUri ==
    /\ (ComposedNormally /\ ModelSpecOut.value # None)
         => /\ Val(ModelSpecOut.value).storage_uri # None
            /\ Val(ModelSpecOut.value).storage_uri = ResolvedUri
    /\ \A k \in DOMAIN platform_calls :
         /\ platform_calls[k].body # None
         /\ Val(Val(platform_calls[k].body).spec.predictor.model).storage_uri # None

\* C3: create_v1beta1_model_spec returns None whenever the final URI is None:
\* on the registry branch when the registry returns zero versions, and off the
\* registry branch when the caller's storage_uri is None.
C3_NoneWhenNoUri ==
    (/\ ComposedNormally
     /\ \/ TakesRegistryBranch /\ RegistryAnswer.versions = <<>>
        \/ ~TakesRegistryBranch /\ ModelSpecIn.storage_uri = None)
      => /\ ModelSpecOut = Return(None)
         /\ v1beta1_i_svc = Return(None)

\* witness of C3: the registry was asked, answered with zero versions, and the
\* handler ended with the incomplete-spec outcome
C3_Witness ==
    /\ pc = "done"
    /\ registry_calls # <<>>
    /\ ~RegistryAnswer.failed
    /\ RegistryAnswer.versions = <<>>
    /\ ModelSpecOut = Return(None)
    /\ result = Some([kind |-> "return", value |-> FALSE])

\* C4: for a ModelSpec with storage_uri set and a protocol_version other than
\* v2, create_v1beta1_model_spec returns a model spec whose storage URI is the
\* caller's, whatever the registry holds, and the registry is not called.
C4_ExplicitUriNotV2 ==
    (/\ Composed
     /\ ModelSpecIn.storage_uri # None
     /\ ModelSpecIn.protocol_version # Some("v2"))
      => /\ registry_calls = <<>>
         /\ ~v1beta1_i_svc.raised
         /\ ModelSpecOut.value # None
         /\ Val(ModelSpecOut.value).storage_uri = ModelSpecIn.storage_uri
         /\ Val(Val(v1beta1_i_svc.value).spec.predictor.model).storage_uri
              = ModelSpecIn.storage_uri

\* witness of C4: a v1 mlflow model with a logical name and an explicit URI was
\* composed with that URI
C4_Witness ==
    /\ Composed
    /\ ModelSpecIn.model_name = Some("iris-model")
    /\ ModelSpecIn.model_format.name = "mlflow"
    /\ ModelSpecIn.protocol_version = Some("v1")
    /\ ModelSpecIn.storage_uri = Some("s3://bucket/iris")
    /\ registry_calls = <<>>
    /\ v1beta1_i_svc.value # None
    /\ Val(Val(v1beta1_i_svc.value).spec.predictor.model).storage_uri = Some("s3://bucket/iris")

\* C5: the registry is queried only when the caller gave no explicit storage
\* URI: with model_name set, format mlflow, protocol v2 and an explicit
\* storage_uri, the registry is not queried and the returned model spec carries
\* the caller's URI (the call does not return None for an empty registry).  The
\* code asks the registry whenever the first three conditions hold, so TLC
\* refutes this.
C5_ExplicitUriSkipsRegistry ==
    (/\ Composed
     /\ TakesRegistryBranch
     /\ ModelSpecIn.storage_uri # None)
      => /\ registry_calls = <<>>
         /\ ~v1beta1_i_svc.raised
         /\ ModelSpecOut.value # None
         /\ Val(ModelSpecOut.value).storage_uri = ModelSpecIn.storage_uri

\* what create_v1beta1_predictor_spec returned in this request
PredictorSpecOut ==
    create_v1beta1_predictor_spec(Val(info).inference_service_spec.predictor, RegistryAnswer)

\* what create_v1beta1_inference_service_spec returned in this request
InferenceServiceSpecOut ==
    create_v1beta1_inference_service_spec(Val(info).inference_service_spec, RegistryAnswer)

\* C6: if the predictor's model spec resolves to None, create_v1beta1_predictor_spec,
\* create_v1beta1_inference_service_spec and create_v1beta1_inference_service all
\* return None, whatever the transformer, the annotation flags and the other
\* predictor fields are; if the model spec is not None, the composed resource's
\* metadata carries the caller's name and namespace.
C6_NoModelSpecAbortsComposition ==
    ComposedNormally =>
      IF ModelSpecOut.value = None
        THEN /\ PredictorSpecOut = Return(None)
             /\ InferenceServiceSpecOut = Return(None)
             /\ v1beta1_i_svc = Return(None)
        ELSE /\ v1beta1_i_svc.value # None
             /\ Val(v1beta1_i_svc.value).metadata.name = Val(info).name
             /\ Val(v1beta1_i_svc.value).metadata.namespace = Val(info).namespace

\* witness of C6: a request with a transformer that has a surviving container,
\* both flags set and a populated predictor was composed to None because its
\* model spec has no URI
C6_Witness ==
    /\ ComposedNormally
    /\ ModelSpecOut = Return(None)
    /\ Val(info).inference_service_spec.transformer
         = Some(TransformerSpec(<<ImageContainer>>))
    /\ Val(info).sidecar_inject
    /\ Val(info).enable_prometheus_scraping
    /\ Val(info).inference_service_spec.predictor.timeout # None
    /\ Val(info).namespace = "team-a"
    /\ v1beta1_i_svc = Return(None)

\* C7: when the composed resource is None, create / patch / replace issue no
\* platform write: every platform write call of a request comes after a
\* composition that returned a resource, and carries that resource.
C7_NoWriteWithoutResource ==
    /\ \A k \in DOMAIN platform_calls :
         /\ Composed
         /\ ~v1beta1_i_svc.raised
         /\ v1beta1_i_svc.value # None
         /\ platform_calls[k].body = v1beta1_i_svc.value
         /\ platform_calls[k].method = op
    /\ (Composed /\ v1beta1_i_svc.value = None) => platform_calls = <<>>

\* witness of C7: a patch request whose composition returned None has ended
\* with no platform call
C7_Witness ==
    /\ pc = "done"
    /\ op = "patch"
    /\ v1beta1_i_svc = Return(None)
    /\ platform_calls = <<>>
    /\ result = Some([kind |-> "return", value |-> FALSE])

SidecarEntry == "sidecar.istio.io/inject" :> "false"

\* the annotations of the composed resource for the four flag combinations, the
\* metrics entry being under `key`
AnnotationTable(sidecar_inject, enable_prometheus_scraping, key) ==
    CASE ~sidecar_inject /\ ~enable_prometheus_scraping -> Some(SidecarEntry)
      [] ~sidecar_inject /\ enable_prometheus_scraping -> Some(SidecarEntry @@ (key :> "true"))
      [] sidecar_inject /\ enable_prometheus_scraping -> Some(key :> "true")
      [] sidecar_inject /\ ~enable_prometheus_scraping -> None

\* C8 as claimed: the four flag combinations give {sidecar}, {sidecar, metrics},
\* {metrics} and None, the metrics entry being `serving.platform/enable-metrics`.
\* The code writes the metrics entry under another key, so TLC refutes this.
C8_AnnotationsAsClaimed ==
    (ComposedNormally /\ v1beta1_i_svc.value # None)
      => Val(v1beta1_i_svc.value).metadata.annotations
           = AnnotationTable(Val(info).sidecar_inject,
                             Val(info).enable_prometheus_scraping,
                             "serving.platform/enable-metrics")

\* C8 amended: the same table with the metrics entry under the key
\* `serving.kserve.io/enable-prometheus-scraping`; the sidecar entry is present
\* iff sidecar_inject is false, the metrics entry iff enable_prometheus_scraping
\* is true, and with neither the annotations are None.
C8_Annotations ==
    (ComposedNormally /\ v1beta1_i_svc.value # None)
      => Val(v1beta1_i_svc.value).metadata.annotations
           = AnnotationTable(Val(info).sidecar_inject,
                             Val(info).enable_prometheus_scraping,
                             "serving.kserve.io/enable-prometheus-scraping")

\* witness of C8: a resource composed with sidecar_inject false and
\* enable_prometheus_scraping true carries both entries
C8_Witness ==
    /\ ComposedNormally
    /\ v1beta1_i_svc.value # None
    /\ ~Val(info).sidecar_inject
    /\ Val(info).enable_prometheus_scraping
    /\ DOMAIN Val(Val(v1beta1_i_svc.value).metadata.annotations)
         = {"sidecar.istio.io/inject", "serving.kserve.io/enable-prometheus-scraping"}

\* the container has at least one field that is not None
HasField(container) ==
    \/ container.image # None
    \/ container.image_pull_policy # None
    \/ container.name # None
    \/ container.command # None
    \/ container.args # None
    \/ container.ports # None
    \/ container.resources # None

\* the request has a transformer with at least one container that has a field
TransformerSurvives ==
    /\ Val(info).inference_service_spec.transformer # None
    /\ \E k \in DOMAIN Val(Val(info).inference_service_spec.transformer).containers :
         HasField(Val(Val(info).inference_service_spec.transformer).containers[k])

\* C9: the composed resource has a transformer iff the request has one and at
\* least one of its containers has a field that is not None; otherwise the
\* transformer is None and the predictor is composed all the same.
C9_TransformerIffContainerSurvives ==
    (ComposedNormally /\ ModelSpecOut.value # None)
      => /\ v1beta1_i_svc.value # None
         /\ Val(v1beta1_i_svc.value).spec.predictor.model = ModelSpecOut.value
         /\ (Val(v1beta1_i_svc.value).spec.transformer # None) <=> TransformerSurvives

\* witness of C9: a transformer whose two containers have no field at all was
\* left out of a resource that was composed and written
C9_Witness ==
    /\ pc = "done"
    /\ Val(info).inference_service_spec.transformer
         = Some(TransformerSpec(<<EmptyContainer, EmptyContainer>>))
    /\ v1beta1_i_svc.value # None
    /\ Val(v1beta1_i_svc.value).spec.transformer = None
    /\ Val(v1beta1_i_svc.value).spec.predictor.model # None
    /\ platform_calls # <<>>

\* ------------------------------------- get_resource_dict called on its own
\* A second specification: the argument is drawn from ResourceInputs, the one
\* action applies get_resource_dict to it.

CpuChars == {" ", "1", "m"}
MemoryChars == {" ", "G", "i"}

ResourceInputs ==
    {None} \cup
    {Some(Resource(c, m, g)) :
        c \in {None} \cup {Some(x) : x \in SeqsUpTo(CpuChars, MaxStrLen)},
        m \in {None} \cup {Some(x) : x \in SeqsUpTo(MemoryChars, MaxStrLen)},
        g \in {None} \cup {Some(n) : n \in -1..MaxGpu}}

InitResource ==
    /\ HandlersIdle
    /\ InferOff
    /\ OthersOff
    /\ rd_pc = "called"
    /\ resource \in ResourceInputs
    /\ resource_dict = None

\* resource_dict = get_resource_dict(resource)
GetResourceDict ==
    /\ rd_pc = "called"
    /\ resource_dict' = get_resource_dict(resource)
    /\ rd_pc' = "returned"
    /\ UNCHANGED <<resource, handler_vars, infer_vars, other_vars>>

NextResource == GetResourceDict

SpecResource == InitResource /\ [][NextResource]_vars

\* what the text says of a field, written without the code's helpers: the
\* trimmed value is the part from the first to the last non-whitespace character
NonSpace(s) == {k \in 1..Len(s) : s[k] \notin Whitespace}
FirstOf(S) == CHOOSE k \in S : \A j \in S : k <= j
LastOf(S) == CHOOSE k \in S : \A j \in S : k >= j
Trimmed(s) == IF NonSpace(s) = {} THEN <<>> ELSE SubSeq(s, FirstOf(NonSpace(s)), LastOf(NonSpace(s)))

CpuQualifies(r) ==
    /\ r.cpu # None
    /\ Len(Trimmed(Val(r.cpu))) >= 1
    /\ Trimmed(Val(r.cpu))[Len(Trimmed(Val(r.cpu)))] = "m"

MemoryQualifies(r) ==
    /\ r.memory # None
    /\ Len(Trimmed(Val(r.memory))) >= 2
    /\ Trimmed(Val(r.memory))[Len(Trimmed(Val(r.memory))) - 1] = "G"
    /\ Trimmed(Val(r.memory))[Len(Trimmed(Val(r.memory)))] = "i"

GpuQualifies(r) == r.gpu # None /\ Val(r.gpu) >= 1

\* the entries of a result of get_resource_dict (None has none)
Entries(rd) == IF rd = None THEN EmptyDict ELSE Val(rd)

\* C11: get_resource_dict never returns an empty map.  It returns None when
\* the argument is None and when no field qualifies (cpu absent or its trimmed
\* value not ending in "m", memory absent or its trimmed value not ending in
\* "Gi", gpu absent or <= 0), and every result that is not None has at least
\* one entry.
C11_NeverAnEmptyMap ==
    rd_pc = "returned" =>
      /\ resource = None => resource_dict = None
      /\ (/\ resource # None
          /\ ~CpuQualifies(Val(resource))
          /\ ~MemoryQualifies(Val(resource))
          /\ ~GpuQualifies(Val(resource))) => resource_dict = None
      /\ resource_dict # None => Cardinality(DOMAIN Val(resource_dict)) >= 1

\* a Resource whose three fields are all present and none qualifies came back
\* as None
C11_Witness ==
    /\ rd_pc = "returned"
    /\ resource # None
    /\ Val(resource).cpu # None /\ ~CpuQualifies(Val(resource))
    /\ Val(resource).memory # None /\ ~MemoryQualifies(Val(resource))
    /\ Val(resource).gpu # None /\ ~GpuQualifies(Val(resource))
    /\ resource_dict = None

\* C12: for a Resource that is not None the entries of the result are exactly
\* "cpu" -> trimmed cpu iff cpu is present and its trimmed value ends with "m",
\* "memory" -> trimmed memory iff memory is present and its trimmed value ends
\* with "Gi", "nvidia.com/gpu" -> gpu iff gpu is present and > 0; there is no
\* other key, and whether a field has its entry depends on that field alone.
C12_EntriesPerField ==
    (rd_pc = "returned" /\ resource # None) =>
      /\ DOMAIN Entries(resource_dict) \subseteq {"cpu", "memory", "nvidia.com/gpu"}
      /\ "cpu" \in DOMAIN Entries(resource_dict) <=> CpuQualifies(Val(resource))
      /\ "cpu" \in DOMAIN Entries(resource_dict) =>
           Entries(resource_dict)["cpu"] = Trimmed(Val(Val(resource).cpu))
      /\ "memory" \in DOMAIN Entries(resource_dict) <=> MemoryQualifies(Val(resource))
      /\ "memory" \in DOMAIN Entries(resource_dict) =>
           Entries(resource_dict)["memory"] = Trimmed(Val(Val(resource).memory))
      /\ "nvidia.com/gpu" \in DOMAIN Entries(resource_dict) <=> GpuQualifies(Val(resource))
      /\ "nvidia.com/gpu" \in DOMAIN Entries(resource_dict) =>
           Entries(resource_dict)["nvidia.com/gpu"] = Val(Val(resource).gpu)

\* a Resource with whitespace around a qualifying cpu, a qualifying memory and
\* a gpu count of 0 came back with exactly the cpu and memory entries, trimmed
C12_Witness ==
    /\ rd_pc = "returned"
    /\ resource # None
    /\ Val(resource).cpu = Some(<<" ", "m", " ">>)
    /\ Val(resource).memory = Some(<<"G", "i", " ">>)
    /\ Val(resource).gpu = Some(0)
    /\ resource_dict = Some([k \in {"cpu", "memory"} |->
                               IF k = "cpu" THEN <<"m">> ELSE <<"G", "i">>])

\* ------------------------------------------------------------ infer_model
\* A third specification: KServeService.infer_model called with a name, a
\* namespace, a model format and a data list, against a platform that holds a
\* deployment for (name, namespace) and an inference endpoint that answers.
\*
\* A service name is the sequence of its dash-separated segments
\* ("torch-iris-v1" is <<"torch", "iris", "v1">>), a URL or host name the
\* sequence of the parts the f-string joins, the data list a record
\* [list |-> rows] (so that it can be compared with a dict).

PyList(items) == [list |-> items]

Exc(type, args) == [type |-> type, args |-> args]

\* app_config.ISTIO_INGRESS_HOST
ISTIO_INGRESS_HOST == "http://istio-ingressgateway"

\* headers = {"Content-Type": "application/json", "Host": f"{name}.{namespace}.svc.cluster.local"}
infer_headers(name, namespace) ==
    [k \in {"Content-Type", "Host"} |->
        IF k = "Host" THEN <<name, ".", namespace, ".svc.cluster.local">>
                      ELSE <<"application/json">>]

\* re.search(r'-(.*?)-', name).group(1): the text between the first two dashes;
\* without two dashes re.search returns None and .group raises
re_search_group(name) ==
    IF Len(name) >= 3
      THEN Return(<<name[2]>>)
      ELSE Raise(Exc("AttributeError", <<"'NoneType' object has no attribute 'group'">>))

\* a v2 body whose shape is taken from the outer list only
v2_formatted_data_square(data) ==
    IF Len(data.list) = 0
      THEN Raise(Exc("IndexError", <<"list index out of range">>))
      ELSE Return([inputs |-> <<[name |-> "input-0",
                                 shape |-> <<Len(data.list), Len(data.list)>>,
                                 datatype |-> "FP32",
                                 data |-> data]>>])

\* formatted_data = {"inputs": [{"name": "input-0", "shape": [len(data), len(data[0])], ...}]}
v2_formatted_data(data) ==
    IF Len(data.list) = 0
      THEN Raise(Exc("IndexError", <<"list index out of range">>))
      ELSE Return([inputs |-> <<[name |-> "input-0",
                                 shape |-> <<Len(data.list), Len(data.list[1])>>,
                                 datatype |-> "FP32",
                                 data |-> data]>>])

\* formatted_data = {"instances": [{"image_bytes": {"b64": data}, "key": "    1"}]}
tensorflow_formatted_data(data) ==
    [instances |-> <<[image_bytes |-> [b64 |-> data], key |-> "    1"]>>]

\* the arguments of httpx.post
post_args(inference_url, formatted_data, headers) ==
    [inference_url |-> inference_url, formatted_data |-> formatted_data, headers |-> headers]

\* the v2 branches once inference_url is known
v2_post_args(inference_url, body, headers) ==
    IF body.raised THEN body
    ELSE Return(post_args(inference_url, body.value, headers))

\* the pytorch branch once the regular expression has been applied
pytorch_post_args(group, data, headers) ==
    IF group.raised THEN group
    ELSE v2_post_args(<<ISTIO_INGRESS_HOST, "/v2/models/", group.value, "/infer">>,
                      v2_formatted_data(data), headers)

V2Formats == {"xgboost", "sklearn", "lightgbm", "pmml"}

\* lines 407-449 of infer_model: inference_url, formatted_data and headers
format_request(name, namespace, model_format, data) ==
    IF model_format \in V2Formats
      THEN v2_post_args(<<ISTIO_INGRESS_HOST, "/v2/models/", name, "/infer">>,
                        v2_formatted_data(data), infer_headers(name, namespace))
    ELSE IF model_format = "pytorch"
      THEN pytorch_post_args(re_search_group(name), data, infer_headers(name, namespace))
    ELSE IF model_format = "tensorflow"
      THEN Return(post_args(<<ISTIO_INGRESS_HOST, "/v1/models/", name, ":predict">>,
                            tensorflow_formatted_data(data), infer_headers(name, namespace)))
    ELSE Return(post_args(<<>>, EmptyDict, infer_headers(name, namespace)))

\* lines 453-464 of infer_model: what it does with the answer of httpx.post.
\* HTTPException is http.client.HTTPException, which takes no keyword
\* arguments: the raise statement raises TypeError.  Nothing raised here is an
\* ApiException, so the except clause lets it through.
infer_outcome(answer) ==
    IF answer.raised # None
      THEN [kind |-> "raise", value |-> Val(answer.raised)]
    ELSE IF answer.status_code = 200
      THEN [kind |-> "return", value |-> [code |-> 200, message |-> answer.json]]
    ELSE [kind |-> "raise",
          value |-> Exc("TypeError", <<"HTTPException() takes no keyword arguments">>)]

\* --- inputs of infer_model

ServiceNames == {<<"iris">>, <<"torch", "iris">>, <<"torch", "iris", "v1">>}

ModelFormats == V2Formats \cup {"pytorch", "tensorflow", "onnx"}

Rows == {<<1, 2>>, <<3, 4>>, <<5>>}

DataSet == {PyList(rows) : rows \in SeqsUpTo(Rows, MaxRows)}

\* what the platform holds for (name, namespace): a status with or without a
\* url, and the protocol version of the predictor
Deployments(name, namespace) ==
    {[url |-> u, protocol_version |-> p] :
        u \in {None} \cup
              {Some([scheme |-> "http://", host |-> <<name, ".", namespace, d>>]) :
                 d \in {".example.com", ".svc.cluster.local"}},
        p \in {"v1", "v2"}}

Predictions == PyList(<<1, 0>>)

\* the JSON document a model server answers with on the path it was called on
ResponseJson(inference_url) ==
    IF inference_url[2] = "/v1/models/"
      THEN [predictions |-> Predictions]
      ELSE [outputs |-> <<[name |-> "output-0", shape |-> <<2>>,
                           datatype |-> "INT64", data |-> Predictions]>>]

StatusCodes == {200, 201, 404, 500}

\* what httpx.post may do: raise (no URL to call, or no connection), or hand
\* back the response of the endpoint
PostAnswers(inference_url) ==
    IF inference_url = <<>>
      THEN {[raised |-> Some(Exc("httpx.UnsupportedProtocol", <<"missing protocol">>)),
             status_code |-> 0, json |-> EmptyDict, text |-> ""]}
      ELSE {[raised |-> Some(Exc("httpx.ConnectError", <<"connection refused">>)),
             status_code |-> 0, json |-> EmptyDict, text |-> ""]}
           \cup
           {[raised |-> None, status_code |-> c,
             json |-> IF c \in 200..299 THEN ResponseJson(inference_url)
                                        ELSE [error |-> "model is not ready"],
             text |-> IF c \in 200..299 THEN "ok" ELSE "model is not ready"] :
              c \in StatusCodes}

\* --- the call

InitInfer ==
    /\ HandlersIdle
    /\ ResourceOff
    /\ OthersOff
    /\ infer_pc = "idle"
    /\ infer_call = None
    /\ deployment = None
    /\ status_lookups = <<>>
    /\ formatted = None
    /\ http_posts = <<>>
    /\ infer_result = None

\* infer_model(name, namespace, model_format, data) is called
InferCall(name, namespace, model_format, data, dep) ==
    /\ infer_call' = Some([name |-> name, namespace |-> namespace,
                           model_format |-> model_format, data |-> data])
    /\ deployment' = Some(dep)
    /\ infer_pc' = "called"
    /\ UNCHANGED <<status_lookups, formatted, http_posts, infer_result>>
    /\ UNCHANGED <<handler_vars, resource_vars, other_vars>>

InferRequest ==
    /\ infer_pc = "idle"
    /\ \E name \in ServiceNames, namespace \in Namespaces :
         \E model_format \in ModelFormats, data \in DataSet :
           \E dep \in Deployments(name, namespace) :
             InferCall(name, namespace, model_format, data, dep)

\* lines 407-449: the URL, the body and the headers, or the exception of
\* building them
InferFormat ==
    /\ infer_pc = "called"
    /\ LET f == format_request(Val(infer_call).name, Val(infer_call).namespace,
                               Val(infer_call).model_format, Val(infer_call).data)
       IN IF f.raised
            THEN /\ infer_result' = Some([kind |-> "raise", value |-> Val(f.exc)])
                 /\ formatted' = None
                 /\ infer_pc' = "done"
            ELSE /\ formatted' = Some(f.value)
                 /\ infer_result' = None
                 /\ infer_pc' = "formatted"
    /\ UNCHANGED <<infer_call, deployment, status_lookups, http_posts>>
    /\ UNCHANGED <<handler_vars, resource_vars, other_vars>>

\* lines 451-466: httpx.post and what follows it
InferPost ==
    /\ infer_pc = "formatted"
    /\ \E answer \in PostAnswers(Val(formatted).inference_url) :
         /\ http_posts' = Append(http_posts,
                                 [url |-> Val(formatted).inference_url,
                                  json |-> Val(formatted).formatted_data,
                                  headers |-> Val(formatted).headers,
                                  answer |-> answer])
         /\ infer_result' = Some(infer_outcome(answer))
    /\ infer_pc' = "done"
    /\ UNCHANGED <<infer_call, deployment, status_lookups, formatted>>
    /\ UNCHANGED <<handler_vars, resource_vars, other_vars>>

\* the call is over; the next one starts from nothing
InferFinish ==
    /\ infer_pc = "done"
    /\ infer_pc' = "idle"
    /\ infer_call' = None
    /\ deployment' = None
    /\ status_lookups' = <<>>
    /\ formatted' = None
    /\ http_posts' = <<>>
    /\ infer_result' = None
    /\ UNCHANGED <<handler_vars, resource_vars, other_vars>>

NextInfer ==
    \/ InferRequest
    \/ InferFormat
    \/ InferPost
    \/ InferFinish

SpecInfer == InitInfer /\ [][NextInfer]_vars

\* --- reading a state of infer_model

InferArgs == Val(infer_call)

\* the call has ended
InferDone == infer_pc = "done"

InferOutcome == Val(infer_result)

\* the call takes the v1 path (tensorflow) / a v2 path
CallsV1 == InferArgs.model_format = "tensorflow"
CallsV2 == InferArgs.model_format \in V2Formats \cup {"pytorch"}

StatusUrl == Val(deployment).url

\* C13: infer_model against a deployment whose platform status has no url
\* fails with ServiceNotReady and issues no HTTP POST; every POST is preceded
\* by a status lookup for (name, namespace) that returned a url.  The code
\* never looks the status up and posts whatever the platform holds, so TLC
\* refutes this.
C13_PostOnlyAfterStatusWithUrl ==
    /\ \A k \in DOMAIN http_posts :
         \E j \in DOMAIN status_lookups :
           /\ status_lookups[j].name = InferArgs.name
           /\ status_lookups[j].namespace = InferArgs.namespace
           /\ status_lookups[j].url # None
    /\ (InferDone /\ StatusUrl = None) =>
         /\ http_posts = <<>>
         /\ InferOutcome.kind = "raise"
         /\ InferOutcome.value.type = "ServiceNotReady"

\* the v2 envelope of the text: one descriptor with the given name, the shape
\* [len(payload), len(payload[0])], datatype FP32 and the payload itself
V2Envelope(name, payload) ==
    [inputs |-> <<[name |-> name,
                   shape |-> <<Len(payload.list), Len(payload.list[1])>>,
                   datatype |-> "FP32",
                   data |-> payload]>>]

C15_V1BodyAsClaimed ==
    \A k \in DOMAIN http_posts :
      CallsV1 => http_posts[k].json = [instances |-> <<InferArgs.data>>]

\* C16: the POST goes to <ingress-host>/v1/models/<name>:predict on the v1 path
\* and to <ingress-host>/v2/models/<name>/infer on a v2 path, <name> being the
\* name the caller passed, and its Host header is the host of the deployment's
\* status URL.  The pytorch branch puts a part of the name in the path and the
\* Host header is built from name and namespace, so TLC refutes this.
C16_UrlAndHostHeader ==
    \A k \in DOMAIN http_posts :
      /\ CallsV1 =>
           http_posts[k].url = <<ISTIO_INGRESS_HOST, "/v1/models/", InferArgs.name, ":predict">>
      /\ CallsV2 =>
           http_posts[k].url = <<ISTIO_INGRESS_HOST, "/v2/models/", InferArgs.name, "/infer">>
      /\ StatusUrl # None
      /\ http_posts[k].headers["Host"] = Val(StatusUrl).host

\* C17: infer_model with an empty data list fails with InvalidInput, before
\* any shape computation and before any HTTP POST.  The v2 branches fail in
\* the shape computation (IndexError) and the tensorflow branch posts, so TLC
\* refutes this.
C17_EmptyPayloadFailsFast ==
    (InferDone /\ Len(InferArgs.data.list) = 0) =>
      /\ http_posts = <<>>
      /\ InferOutcome.kind = "raise"
      /\ InferOutcome.value.type = "InvalidInput"

\* C18: when the endpoint answers with a non-2xx status infer_model ends with
\* an InferenceTransportError that carries the status code and the body, and
\* every 2xx answer is a success.  The code takes 200 only as success and its
\* raise statement raises TypeError, so TLC refutes this.
C18_TransportErrorCarriesStatus ==
    \A k \in DOMAIN http_posts :
      (InferDone /\ http_posts[k].answer.raised = None) =>
        IF http_posts[k].answer.status_code \in 200..299
          THEN InferOutcome.kind = "return"
          ELSE /\ InferOutcome.kind = "raise"
               /\ InferOutcome.value.type = "InferenceTransportError"
               /\ InferOutcome.value.args =
                    <<http_posts[k].answer.status_code, http_posts[k].answer.text>>

\* the prediction payload of a response: "predictions" (v1), outputs[0].data (v2)
Extracted(json) ==
    IF "predictions" \in DOMAIN json THEN json.predictions ELSE json.outputs[1].data

\* C19: what infer_model returns on success is the extracted prediction
\* payload ("predictions" of a v1 response, outputs[0].data of a v2 response),
\* not the response envelope.  The code returns the whole response document
\* as the message, so TLC refutes this.
C19_ReturnsExtractedPayload ==
    (InferDone /\ InferOutcome.kind = "return") =>
      InferOutcome.value.message = Extracted(http_posts[1].answer.json)

\* ------------------------------------------------- the platform write fails

\* the platform write of this request was made and raised
WriteRaised == platform_calls # <<>> /\ platform_calls[1].raised # None

\* what the platform answered the write with
PlatformError == Val(platform_calls[1].raised)

\* the outcome of a handler carries the status code, the reason and the body of
\* the platform error e: as the arguments handed to parse_response (create), as
\* a KServeApiError whose code ends in the status (patch / replace, an
\* ApiException), or as the exception itself (patch / replace, anything else)
Preserves(outcome, e) ==
    IF outcome.kind = "return"
      THEN /\ DOMAIN outcome.value = {"kind", "args"}
           /\ outcome.value.args.status = e.status
           /\ outcome.value.args.reason = e.reason
           /\ outcome.value.args.body = e.body
    ELSE IF outcome.value.type = "KServeApiError"
      THEN /\ outcome.value.code % 1000 = e.status
           /\ outcome.value.message = e.reason
           /\ outcome.value.result = e.body
    ELSE /\ outcome.value.status = e.status
         /\ outcome.value.reason = e.reason
         /\ outcome.value.body = e.body

RegistryFailed == registry_calls # <<>> /\ RegistryAnswer.failed

\* C21: a registry failure (MlflowException) during model-spec resolution is
\* never reported as the incomplete-spec outcome: create_v1beta1_model_spec
\* does not return None for it but raises a KServeApiError, the composition
\* raises it too, no platform write is made for the request, and the request
\* ends through the handler's except clause (create hands the KServeApiError to
\* parse_response, patch / replace let it propagate), never with `return False`.
C21_RegistryFailurePropagates ==
    (Composed /\ RegistryFailed) =>
      /\ ModelSpecOut.raised
      /\ Val(ModelSpecOut.exc).type = "KServeApiError"
      /\ v1beta1_i_svc.raised
      /\ Val(v1beta1_i_svc.exc).type = "KServeApiError"
      /\ platform_calls = <<>>
      /\ pc = "done" =>
           IF op = "create"
             THEN /\ Val(result).kind = "return"
                  /\ DOMAIN Val(result).value = {"kind", "args"}
                  /\ Val(result).value.args.type = "KServeApiError"
             ELSE /\ Val(result).kind = "raise"
                  /\ Val(result).value.type = "KServeApiError"

\* a replace request whose registry lookup failed has ended with a raised
\* KServeApiError and without a platform call
C21_Witness ==
    /\ pc = "done"
    /\ op = "replace"
    /\ RegistryFailed
    /\ platform_calls = <<>>
    /\ Val(result).kind = "raise"
    /\ Val(result).value = KServeApiError_default

\* ------------------------------------------ converters called on their own
\* A fourth specification: one of the list converters or
\* create_v1_resource_requirements is called with an argument drawn from its
\* inputs, and the action of that converter applies it.

HostPort == Port(None, None, None, None, Some(80))

PortSet == {EmptyPort, HttpPort, HostPort}

NamedContainer == Container(None, None, Some("sidecar"), None, None, Some(<<HttpPort>>), None)

EnvSet == {[name |-> "LOG", value |-> "1"], [name |-> "MODE", value |-> "test"]}

TolerationSet ==
    {[key |-> "gpu", operator |-> "Exists", value |-> "", effect |-> "NoSchedule"],
     [key |-> "zone", operator |-> "Equal", value |-> "a", effect |-> "NoExecute"]}

GpuOnlyResource == Resource(None, None, Some(2))
AbsentResource == Resource(None, None, None)

ResourceSet ==
    {None, Some(InvalidResource), Some(ValidResource), Some(GpuOnlyResource), Some(AbsentResource)}

\* None, or a list of at most n entries of S
OptionalLists(S, n) == {None} \cup {Some(l) : l \in SeqsUpTo(S, n)}

ConverterCalls ==
    {[fn |-> "create_v1_container_list", arg |-> a] :
        a \in OptionalLists(ContainerSet \cup {NamedContainer}, MaxContainers)}
      \cup {[fn |-> "create_v1_container_port_list", arg |-> a] :
              a \in OptionalLists(PortSet, MaxEntries)}
      \cup {[fn |-> "create_v1_env_var_list", arg |-> a] : a \in OptionalLists(EnvSet, MaxEntries)}
      \cup {[fn |-> "create_v1_toleration_list", arg |-> a] :
              a \in OptionalLists(TolerationSet, MaxEntries)}
      \cup {[fn |-> "create_v1_resource_requirements", arg |-> a] :
              a \in {None} \cup {Some(ResourceRequirements(l, r)) :
                                   l \in ResourceSet, r \in ResourceSet}}

InitConverters ==
    /\ HandlersIdle
    /\ ResourceOff
    /\ InferOff
    /\ LookupOff
    /\ MinioOff
    /\ PageOff
    /\ conv_pc = "called"
    /\ conv_call \in {Some(c) : c \in ConverterCalls}
    /\ conv_out = None

\* the converter `fn` is being called
Calls(fn) == conv_pc = "called" /\ Val(conv_call).fn = fn

\* the converter called returns `out`
Returns(out) ==
    /\ conv_out' = out
    /\ conv_pc' = "returned"
    /\ UNCHANGED <<conv_call, handler_vars, resource_vars, infer_vars>>
    /\ UNCHANGED <<lookup_vars, minio_vars, page_vars>>

ConvertContainerList ==
    /\ Calls("create_v1_container_list")
    /\ Returns(create_v1_container_list(Val(conv_call).arg))

ConvertContainerPortList ==
    /\ Calls("create_v1_container_port_list")
    /\ Returns(create_v1_container_port_list(Val(conv_call).arg))

ConvertEnvVarList ==
    /\ Calls("create_v1_env_var_list")
    /\ Returns(create_v1_env_var_list(Val(conv_call).arg))

ConvertTolerationList ==
    /\ Calls("create_v1_toleration_list")
    /\ Returns(create_v1_toleration_list(Val(conv_call).arg))

ConvertResourceRequirements ==
    /\ Calls("create_v1_resource_requirements")
    /\ Returns(create_v1_resource_requirements(Val(conv_call).arg))

NextConverters ==
    \/ ConvertContainerList
    \/ ConvertContainerPortList
    \/ ConvertEnvVarList
    \/ ConvertTolerationList
    \/ ConvertResourceRequirements

SpecConverters == InitConverters /\ [][NextConverters]_vars

\* --- reading a state of a converter call

\* the converter `fn` has returned
Returned(fn) == conv_pc = "returned" /\ Val(conv_call).fn = fn

ConvArg == Val(conv_call).arg

\* a port with at least one field that is not None
PortHasField(port) ==
    \/ port.container_port # None
    \/ port.host_ip # None
    \/ port.host_port # None
    \/ port.name # None
    \/ port.protocol # None

\* the entries of an optional list that pass Test, in the list's order
Survivors(list, Test(_)) == IF list = None THEN <<>> ELSE SelectSeq(Val(list), Test)

\* `converted` is the conversion of the container `c`
IsContainerOf(converted, c) ==
    /\ converted.image = c.image
    /\ converted.image_pull_policy = c.image_pull_policy
    /\ converted.name = c.name
    /\ converted.command = c.command
    /\ converted.args = c.args
    /\ converted.ports = create_v1_container_port_list(c.ports)
    /\ converted.resources = create_v1_resource_requirements(c.resources)

\* `converted` is the conversion of the port `p`
IsPortOf(converted, p) ==
    /\ converted.container_port = p.container_port
    /\ converted.host_ip = p.host_ip
    /\ converted.host_port = p.host_port
    /\ converted.name = p.name
    /\ converted.protocol = p.protocol

\* C22: create_v1_container_list and create_v1_container_port_list return, in
\* input order, the conversions of exactly the entries that have a field which
\* is not None; the result is None, never an empty list, when the input is
\* None, empty, or has no such entry.
C22_ListsKeepSurvivorsInOrder ==
    /\ Returned("create_v1_container_list") =>
         IF Survivors(ConvArg, HasField) = <<>>
           THEN conv_out = None
           ELSE /\ conv_out # None
                /\ Len(Val(conv_out)) = Len(Survivors(ConvArg, HasField))
                /\ \A k \in DOMAIN Val(conv_out) :
                     IsContainerOf(Val(conv_out)[k], Survivors(ConvArg, HasField)[k])
    /\ Returned("create_v1_container_port_list") =>
         IF Survivors(ConvArg, PortHasField) = <<>>
           THEN conv_out = None
           ELSE /\ conv_out # None
                /\ Len(Val(conv_out)) = Len(Survivors(ConvArg, PortHasField))
                /\ \A k \in DOMAIN Val(conv_out) :
                     IsPortOf(Val(conv_out)[k], Survivors(ConvArg, PortHasField)[k])

\* the list of an empty and a named container came back as the one conversion
\* of the named container
C22_Witness ==
    /\ Returned("create_v1_container_list")
    /\ ConvArg = Some(<<EmptyContainer, NamedContainer>>)
    /\ conv_out # None
    /\ Len(Val(conv_out)) = 1
    /\ Val(conv_out)[1].name = Some("sidecar")

\* C23: create_v1_env_var_list and create_v1_toleration_list return None, not
\* an empty list, when no entry survives, in particular for an empty input
\* list.  The code returns the list it built, which is empty for an empty
\* input, so TLC refutes this.
C23_EmptyListsBecomeNone ==
    (Returned("create_v1_env_var_list") \/ Returned("create_v1_toleration_list")) =>
      /\ conv_out # Some(<<>>)
      /\ (ConvArg = None \/ ConvArg = Some(<<>>)) => conv_out = None

\* a Resource has no valid field (or is absent)
NoValidField(r) ==
    \/ r = None
    \/ ~CpuQualifies(Val(r)) /\ ~MemoryQualifies(Val(r)) /\ ~GpuQualifies(Val(r))

\* C24: create_v1_resource_requirements returns None when its argument is None
\* or when limits and requests both build to None (each absent or without a
\* valid field); otherwise it returns requirements whose limits and requests
\* are the two results of get_resource_dict, neither of them an empty map.
C24_RequirementsOrNone ==
    Returned("create_v1_resource_requirements") =>
      IF ConvArg = None
        THEN conv_out = None
      ELSE IF NoValidField(Val(ConvArg).limits) /\ NoValidField(Val(ConvArg).requests)
        THEN conv_out = None
      ELSE /\ conv_out # None
           /\ Val(conv_out).limits = get_resource_dict(Val(ConvArg).limits)
           /\ Val(conv_out).requests = get_resource_dict(Val(ConvArg).requests)
           /\ Val(conv_out).limits # Some(EmptyDict)
           /\ Val(conv_out).requests # Some(EmptyDict)
           /\ Val(conv_out).limits = None <=> NoValidField(Val(ConvArg).limits)
           /\ Val(conv_out).requests = None <=> NoValidField(Val(ConvArg).requests)

\* requirements with valid limits and requests without a valid field came
\* back with the limits and with requests None
C24_Witness ==
    /\ Returned("create_v1_resource_requirements")
    /\ ConvArg = Some(ResourceRequirements(Some(ValidResource), Some(InvalidResource)))
    /\ conv_out # None
    /\ Val(conv_out).limits # None
    /\ Val(conv_out).requests = None

\* --------------------------------------------- containers of a composed resource

\* the transformer of the resource composed in this request
TransformerOut == Val(v1beta1_i_svc.value).spec.transformer

\* C25: no entirely empty sub-object is emitted in a composed resource: every
\* container of the transformer's container list has a field that is not None
\* after conversion, also when the only fields of the input container are a
\* list of empty ports or a resources object without a valid field.
\* create_v1_container tests the fields of its input, not of what it builds,
\* so TLC refutes this.
C25_NoEmptyContainerEmitted ==
    (ComposedNormally /\ v1beta1_i_svc.value # None /\ TransformerOut # None) =>
      \A k \in DOMAIN Val(TransformerOut).containers :
        HasField(Val(TransformerOut).containers[k])

\* ------------------------------------ get / detail / stat / delete by name
\* A fifth specification: the platform holds inference services under
\* (name, namespace); create_inference_service succeeds for one, and then
\* get_inference_service, get_inference_service_parse_detail,
\* get_inference_service_stat and delete_inference_service are called by name.

LookupNames == {"iris", "bert"}

\* the namespace the four handlers pass to the platform client
DEFAULT_NAMESPACE == "kubeflow-user-example-com"

ResourceKey(name, namespace) == [name |-> name, namespace |-> namespace]

InitLookup ==
    /\ HandlersIdle
    /\ ResourceOff
    /\ InferOff
    /\ ConvertersOff
    /\ MinioOff
    /\ PageOff
    /\ resources \in SUBSET {ResourceKey(n, ns) : n \in LookupNames, ns \in Namespaces}
    /\ created = None
    /\ lookup_calls = <<>>

\* create_inference_service(info) returns code 200: the platform client has
\* created the resource under info.name in the namespace of its metadata
CreateSucceeds ==
    /\ created = None
    /\ \E n \in LookupNames, ns \in Namespaces :
         /\ ResourceKey(n, ns) \notin resources
         /\ resources' = resources \cup {ResourceKey(n, ns)}
         /\ created' = Some(ResourceKey(n, ns))
    /\ UNCHANGED <<lookup_calls, handler_vars, resource_vars, infer_vars>>
    /\ UNCHANGED <<conv_vars, minio_vars, page_vars>>

\* the entry of lookup_calls of a handler that calls the platform client's
\* `method` for `name`
lookup_call(handler, method, name) ==
    [handler |-> handler, method |-> method, name |-> name,
     namespace |-> DEFAULT_NAMESPACE,
     found |-> ResourceKey(name, DEFAULT_NAMESPACE) \in resources]

\* a handler that only reads: self.get_kserve_client().get(name=name, namespace=...)
Reads(handler, name) ==
    /\ lookup_calls' = Append(lookup_calls, lookup_call(handler, "get", name))
    /\ UNCHANGED <<resources, created, handler_vars, resource_vars, infer_vars>>
    /\ UNCHANGED <<conv_vars, minio_vars, page_vars>>

\* a handler can be called
CanLookup == created # None /\ Len(lookup_calls) < MaxLookups

GetInferenceService ==
    /\ CanLookup
    /\ \E name \in LookupNames : Reads("get_inference_service", name)

GetInferenceServiceParseDetail ==
    /\ CanLookup
    /\ \E name \in LookupNames : Reads("get_inference_service_parse_detail", name)

GetInferenceServiceStat ==
    /\ CanLookup
    /\ \E name \in LookupNames : Reads("get_inference_service_stat", name)

\* self.get_kserve_client().delete(name=name, namespace="kubeflow-user-example-com")
DeleteInferenceService ==
    /\ CanLookup
    /\ \E name \in LookupNames :
         /\ lookup_calls' =
              Append(lookup_calls, lookup_call("delete_inference_service", "delete", name))
         /\ resources' = resources \ {ResourceKey(name, DEFAULT_NAMESPACE)}
    /\ UNCHANGED <<created, handler_vars, resource_vars, infer_vars>>
    /\ UNCHANGED <<conv_vars, minio_vars, page_vars>>

NextLookup ==
    \/ CreateSucceeds
    \/ GetInferenceService
    \/ GetInferenceServiceParseDetail
    \/ GetInferenceServiceStat
    \/ DeleteInferenceService

SpecLookup == InitLookup /\ [][NextLookup]_vars

\* C26: namespace round trip.  After create_inference_service has succeeded
\* for name n and namespace ns, the platform calls that get_inference_service,
\* get_inference_service_parse_detail, get_inference_service_stat and
\* delete_inference_service make for n address (n, ns), never a resource of
\* that name in another namespace.  The four handlers pass a fixed namespace,
\* so TLC refutes this.
C26_NamespaceRoundTrip ==
    \A k \in DOMAIN lookup_calls :
      lookup_calls[k].name = Val(created).name =>
        lookup_calls[k].namespace = Val(created).namespace

\* --------------------------------------------------- what the handlers return

\* the handler of this request has returned a value (it did not raise)
HandlerReturned == pc = "done" /\ Val(result).kind = "return"

\* the handler took `if v1beta1_i_svc is None: return False`
ReturnedIncomplete == ComposedNormally /\ is_incomplete(v1beta1_i_svc)

\* Response.from_result can read result['code'] and result['message'];
\* what parse_response builds is taken to be such a mapping
HasCodeAndMessage(value) ==
    \/ {"code", "message"} \subseteq DOMAIN value
    \/ "kind" \in DOMAIN value /\ value.kind = "parse_response"

\* C27: every value that create_inference_service, patch_inference_service and
\* replace_inference_service return is a mapping with a 'code' and a 'message'
\* entry, the incomplete-spec outcome and the success of patch / replace
\* included.  The incomplete-spec outcome is False and patch / replace return
\* the platform's answer as it is, so TLC refutes this.
C27_ResultHasCodeAndMessage ==
    HandlerReturned =>
      /\ ~ReturnedIncomplete
      /\ HasCodeAndMessage(Val(result).value)

\* C28: infer_model issues its HTTP POST only with a non-empty inference URL
\* and a non-empty request envelope; for a model_format outside xgboost,
\* sklearn, lightgbm, pmml, pytorch and tensorflow no POST to an empty URL with
\* an empty body is sent.  The URL and the body are initialised empty and the
\* POST follows the format chain unconditionally, so TLC refutes this.
C28_PostHasUrlAndBody ==
    \A k \in DOMAIN http_posts :
      /\ http_posts[k].url # <<>>
      /\ http_posts[k].json # EmptyDict

\* -------------------------------------------------------------- put_objects
\* A sixth specification: two requests run put_objects on the same bucket, each
\* in its own worker thread; the object store serves one call at a time.

Callers == {1, 2}

Filenames == {"a.bin"}

FolderPaths == {None, Some("m")}

\* object_name = upload_file.filename, or folder_path + '/' + upload_file.filename
object_name(folder_path, filename) ==
    IF folder_path = None THEN <<filename>> ELSE <<Val(folder_path), "/", filename>>

ObjectNames == {object_name(fp, f) : fp \in FolderPaths, f \in Filenames}

\* upload_files of a request
FileLists == UNION {[1..n -> Filenames] : n \in 1..MaxFiles}

\* what a caller's upload_file.file holds
file_data(caller) == <<"data of request", caller>>

\* the per-file response that put_objects collects
minio_response(message, code) == [message |-> message, code |-> code]

\* the call put_objects(bucket_name, upload_files, folder_path) at its start
put_objects_call(files, folder_path) ==
    [files |-> files, folder_path |-> folder_path, at |-> 1, pc |-> "check",
     responses |-> <<>>, result |-> None]

InitMinio ==
    /\ HandlersIdle
    /\ ResourceOff
    /\ InferOff
    /\ ConvertersOff
    /\ LookupOff
    /\ PageOff
    /\ bucket \in [ObjectNames -> {None, Some(<<"stored before">>)}]
    /\ uploads \in [Callers -> {put_objects_call(fs, fp) : fs \in FileLists, fp \in FolderPaths}]

\* the object name of the file a caller is at
Target(c) == object_name(uploads[c].folder_path, uploads[c].files[uploads[c].at])

\* the caller's loop goes on to the next upload_file with one more response
Responded(c, response) ==
    [uploads EXCEPT ![c].responses = Append(@, response),
                    ![c].at = @ + 1,
                    ![c].pc = IF uploads[c].at = Len(uploads[c].files) THEN "done" ELSE "check"]

MinioStep == UNCHANGED <<handler_vars, resource_vars, infer_vars, conv_vars, lookup_vars, page_vars>>

\* client.get_object(bucket_name, object_name) returns: 409 for this file
ObjectAlreadyExists ==
    /\ \E c \in Callers :
         /\ uploads[c].pc = "check"
         /\ bucket[Target(c)] # None
         /\ uploads' = Responded(c, minio_response([code |-> 409, message |-> "Object Already Exists"], 409))
    /\ UNCHANGED bucket
    /\ MinioStep

\* client.get_object raises: the object is absent, or the call failed for
\* another reason (the connection, the credentials, the bucket); `except
\* Exception` takes both to the upload
GetObjectRaises ==
    /\ \E c \in Callers :
         /\ uploads[c].pc = "check"
         /\ uploads' = [uploads EXCEPT ![c].pc = "put"]
    /\ UNCHANGED bucket
    /\ MinioStep

\* client.put_object(...) stores the file and the presigned URL is the response
PutObject ==
    /\ \E c \in Callers :
         /\ uploads[c].pc = "put"
         /\ bucket' = [bucket EXCEPT ![Target(c)] = Some(file_data(c))]
         /\ uploads' = Responded(c, minio_response(<<"url of", Target(c)>>, 200))
    /\ MinioStep

\* os.fstat or client.put_object raises: code 400 for this file
PutObjectRaises ==
    /\ \E c \in Callers :
         /\ uploads[c].pc = "put"
         /\ uploads' = Responded(c, minio_response(<<"e.args">>, 400))
    /\ UNCHANGED bucket
    /\ MinioStep

\* result = {"code": 200, "message": [response["message"] for response in responses]}
PutObjectsReturns ==
    /\ \E c \in Callers :
         /\ uploads[c].pc = "done"
         /\ uploads' =
              [uploads EXCEPT ![c].pc = "returned",
                              ![c].result =
                                Some([code |-> 200,
                                      message |-> [k \in DOMAIN uploads[c].responses |->
                                                     uploads[c].responses[k].message]])]
    /\ UNCHANGED bucket
    /\ MinioStep

NextMinio ==
    \/ ObjectAlreadyExists
    \/ GetObjectRaises
    \/ PutObject
    \/ PutObjectRaises
    \/ PutObjectsReturns

SpecMinio == InitMinio /\ [][NextMinio]_vars

\* C29: put_objects never overwrites an existing object: a step that changes
\* what the bucket holds under a name is taken only when the bucket holds
\* nothing under that name, also when two calls for the same name interleave
\* and when the existence check fails for another reason than absence.  The
\* check and the put are two calls and every exception of the check leads to
\* the put, so TLC refutes this.
C29_NeverOverwrites ==
    [][\A name \in DOMAIN bucket : bucket[name] # None => bucket'[name] = bucket[name]]_vars

\* ----------------------------------------------------------------- get_page
\* A seventh specification: get_page is called on a list of items.  An item is
\* a dict of two columns whose values are strings or None; a string is a
\* sequence of characters, a value is None or Some(string).

\* the columns of an item, in the order item.values() yields them
Columns == <<"name", "creationTimestamp">>

Item(name, creationTimestamp) == [name |-> name, creationTimestamp |-> creationTimestamp]

ItemSet ==
    {Item(Some(n), t) : n \in {<<"a">>, <<"B">>}, t \in {None, Some(<<"b">>)}}

DataLists == UNION {[1..n -> ItemSet] : n \in 0..MaxItems}

Keywords == {None, Some(<<>>), Some(<<"B">>), Some(<<"n">>)}

OptionalColumns == {None, Some("name"), Some("creationTimestamp")}

PageIndexes == {0 - 1, 1, 2}

PageSizes == {0 - 1, 0, 1, 2}

PageArgs ==
    [data : DataLists, search_keyword : Keywords, search_column : OptionalColumns,
     sort : {None, Some(TRUE), Some(FALSE)}, sort_column : OptionalColumns,
     page_index : PageIndexes, page_size : PageSizes]

\* str.lower() on the characters that occur
lower_char(c) == IF c = "B" THEN "b" ELSE IF c = "N" THEN "n" ELSE c

lower(string) == [k \in DOMAIN string |-> lower_char(string[k])]

\* needle in hay, for strings
contains(needle, hay) ==
    \E i \in 0..(Len(hay) - Len(needle)) : SubSeq(hay, i + 1, i + Len(needle)) = needle

\* str(value)
py_str(value) == IF value = None THEN <<"N", "o", "n", "e">> ELSE Val(value)

\* any(search_keyword.lower() in value.lower() for value in item.values()),
\* from column k on: "yes", "no", or "raise" when value.lower() is reached for
\* a value that is None
RECURSIVE any_value_has(_, _, _)
any_value_has(item, keyword, k) ==
    IF k > Len(Columns) THEN "no"
    ELSE IF item[Columns[k]] = None THEN "raise"
    ELSE IF contains(lower(keyword), lower(Val(item[Columns[k]]))) THEN "yes"
    ELSE any_value_has(item, keyword, k + 1)

\* the second comprehension: search_keyword.lower() in str(item[search_column]).lower()
column_filter(data, keyword, search_column) ==
    IF search_column = None THEN data
    ELSE SelectSeq(data, LAMBDA item : contains(lower(keyword), lower(py_str(item[Val(search_column)]))))

\* if search_keyword: the two comprehensions
keyword_filter(data, keyword, search_column) ==
    IF \E k \in DOMAIN data : any_value_has(data[k], keyword, 1) = "raise"
      THEN Raise(Exc("AttributeError", <<"'NoneType' object has no attribute 'lower'">>))
      ELSE Return(column_filter(SelectSeq(data, LAMBDA item : any_value_has(item, keyword, 1) = "yes"),
                                keyword, search_column))

\* a truthy str argument
Truthy(string) == string # None /\ Val(string) # <<>>

filtered(a) ==
    IF Truthy(a.search_keyword)
      THEN keyword_filter(a.data, Val(a.search_keyword), a.search_column)
      ELSE Return(a.data)

\* code points of the characters that occur
ord(c) == IF c = "B" THEN 66 ELSE IF c = "N" THEN 78 ELSE IF c = "a" THEN 97 ELSE IF c = "b" THEN 98 ELSE IF c = "n" THEN 110 ELSE 111

\* s < t for strings
RECURSIVE str_lt(_, _)
str_lt(s, t) ==
    IF t = <<>> THEN FALSE
    ELSE IF s = <<>> THEN TRUE
    ELSE IF Head(s) # Head(t) THEN ord(Head(s)) < ord(Head(t))
    ELSE str_lt(Tail(s), Tail(t))

\* (x is None, x) < (y is None, y) for two values of a column
key_lt(x, y) ==
    IF (x = None) # (y = None) THEN y = None
    ELSE IF x = None THEN FALSE
    ELSE str_lt(Val(x), Val(y))

\* `item` comes after `other` wherever sorted() has placed `other` first
goes_before(other, item, column, reverse) ==
    IF reverse THEN ~key_lt(other[column], item[column])
               ELSE ~key_lt(item[column], other[column])

\* the place of `item` in a sorted list: after every element that is not
\* behind it in the order (sorted() is stable, also with reverse)
place(list, item, column, reverse) ==
    Cardinality({k \in DOMAIN list : goes_before(list[k], item, column, reverse)})

insert(list, item, at) == SubSeq(list, 1, at) \o <<item>> \o SubSeq(list, at + 1, Len(list))

\* sorted(data, key=lambda x: (x[sort_column] is None, x[sort_column]), reverse=sort)
RECURSIVE py_sorted(_, _, _)
py_sorted(data, column, reverse) ==
    IF data = <<>> THEN <<>>
    ELSE insert(py_sorted(SubSeq(data, 1, Len(data) - 1), column, reverse), data[Len(data)],
                place(py_sorted(SubSeq(data, 1, Len(data) - 1), column, reverse), data[Len(data)], column, reverse))

\* if (sort is not None) and sort_column
sort_stage(a, data) ==
    IF a.sort # None /\ a.sort_column # None
      THEN py_sorted(data, Val(a.sort_column), Val(a.sort))
      ELSE data

\* an index of a slice, as Python places it in a list of n elements
slice_index(i, n) == IF i < 0 THEN (IF i + n < 0 THEN 0 ELSE i + n) ELSE (IF i > n THEN n ELSE i)

\* list[start:end]
py_slice(list, start, end) ==
    SubSeq(list, slice_index(start, Len(list)) + 1, slice_index(end, Len(list)))

\* a page numbering that starts at 0
start_index_from_zero(page_index, page_size) == page_index * page_size

\* start_index = (page_index - 1) * page_size
start_index(page_index, page_size) == (page_index - 1) * page_size

\* total_result_details, the slice, and the dict returned
page_stage(a, data) ==
    [total_result_details |-> Len(data),
     result_details |->
       IF a.page_size > 0
         THEN py_slice(data, start_index(a.page_index, a.page_size),
                       start_index(a.page_index, a.page_size) + a.page_size)
         ELSE data]

get_page(a) ==
    IF filtered(a).raised THEN filtered(a)
    ELSE Return(page_stage(a, sort_stage(a, filtered(a).value)))

InitPage ==
    /\ HandlersIdle
    /\ ResourceOff
    /\ InferOff
    /\ ConvertersOff
    /\ LookupOff
    /\ MinioOff
    /\ page_pc = "called"
    /\ page_args \in {Some(a) : a \in PageArgs}
    /\ page_out = None

GetPage ==
    /\ page_pc = "called"
    /\ page_out' = Some(get_page(Val(page_args)))
    /\ page_pc' = "returned"
    /\ UNCHANGED <<page_args, handler_vars, resource_vars, infer_vars>>
    /\ UNCHANGED <<conv_vars, lookup_vars, minio_vars>>

NextPage == GetPage

SpecPage == InitPage /\ [][NextPage]_vars

\* get_page has returned a value (it did not raise)
PageReturned == page_pc = "returned" /\ ~Val(page_out).raised

PageIn == Val(page_args)

PageResult == Val(page_out).value

\* the item passes the keyword / column filtering of the call
Kept(item) ==
    Truthy(PageIn.search_keyword) =>
      /\ \E k \in DOMAIN Columns :
           /\ item[Columns[k]] # None
           /\ contains(lower(Val(PageIn.search_keyword)), lower(Val(item[Columns[k]])))
      /\ PageIn.search_column # None =>
           contains(lower(Val(PageIn.search_keyword)),
                    lower(py_str(item[Val(PageIn.search_column)])))

\* what the same call returns when no paging is asked for: the whole
\* filtered, sorted list
WholeList == get_page([PageIn EXCEPT !.page_size = 0]).value.result_details

Occurrences(list, item) == Cardinality({k \in DOMAIN list : list[k] = item})

\* the whole list holds the kept items of data, each as often as data does
WholeListIsTheKeptItems ==
    \A item \in ItemSet :
      Occurrences(WholeList, item) = IF Kept(item) THEN Occurrences(PageIn.data, item) ELSE 0

SortValue(k) == WholeList[k][Val(PageIn.sort_column)]

\* neighbours that both have a value in sort_column are in the order asked for
WholeListIsOrdered ==
    (PageIn.sort # None /\ PageIn.sort_column # None) =>
      \A k \in 1..(Len(WholeList) - 1) :
        (SortValue(k) # None /\ SortValue(k + 1) # None) =>
          IF Val(PageIn.sort) THEN ~str_lt(Val(SortValue(k)), Val(SortValue(k + 1)))
                              ELSE ~str_lt(Val(SortValue(k + 1)), Val(SortValue(k)))

PageStart == (PageIn.page_index - 1) * PageIn.page_size

ShorterOf(m, n) == IF m < n THEN m ELSE n

\* C30: when get_page returns, total_result_details is the number of items
\* left after the keyword / column filtering, whatever page_index and page_size
\* are; with page_size > 0 result_details is the slice of the filtered, sorted
\* list from index (page_index - 1) * page_size, at most page_size long; with
\* page_size <= 0 it is the whole filtered, sorted list; and with sort = True
\* the list is in descending, with sort = False in ascending order of
\* sort_column.
C30_GetPage ==
    PageReturned =>
      /\ PageResult.total_result_details = Len(SelectSeq(PageIn.data, Kept))
      /\ PageResult.total_result_details = Len(WholeList)
      /\ WholeListIsTheKeptItems
      /\ WholeListIsOrdered
      /\ PageIn.page_size <= 0 => PageResult.result_details = WholeList
      /\ PageIn.page_size > 0 =>
           /\ Len(PageResult.result_details) <= PageIn.page_size
           /\ PageResult.result_details =
                py_slice(WholeList, PageStart, PageStart + PageIn.page_size)
           /\ PageIn.page_index >= 1 =>
                PageResult.result_details =
                  SubSeq(WholeList, PageStart + 1,
                         ShorterOf(PageStart + PageIn.page_size, Len(WholeList)))

\* a second page of one item out of a list that went through the keyword filter
\* and that the sort reordered
C30_Witness ==
    /\ PageReturned
    /\ Truthy(PageIn.search_keyword)
    /\ PageIn.sort = Some(TRUE)
    /\ PageIn.sort_column # None
    /\ PageIn.page_size = 1
    /\ PageIn.page_index = 2
    /\ Len(PageResult.result_details) = 1
    /\ WholeList # SelectSeq(PageIn.data, Kept)

====
